---- MODULE Spec2Model ----
(***************************************************************************)
(* The lane editing engine DataManager of                                  *)
(* DataVisualizationEditingTool/utils/data_manager.py: a table of point    *)
(* rows (x, y, yaw, frame_idx, index, lane_id) edited under an undo/redo   *)
(* history, with a time-gated backup after every successful operation.     *)
(*                                                                         *)
(* A numpy array is a record [shape, rows]: shape is <<0>> for the 1-D     *)
(* empty array np.array([]) and <<n, c>> for an n-by-c array; rows is the  *)
(* sequence of its rows, each a tuple of c values.  Python positions are   *)
(* 0-based; the k-th column of a row r is r[k + 1].  A yaw is the angle    *)
(* atan2(dy, dx), written as the reduced direction <<dy, dx>>; the angle   *)
(* 0.0 is <<0, 1>>.                                                        *)
(***************************************************************************)
EXTENDS Integers, Sequences, FiniteSets, TLC

VARIABLES data, file_names, total_cols, history, redo_stack,
          last_backup, now, backups, last, pre, failed, shared

engine == <<data, file_names, total_cols, history, redo_stack>>
clock  == <<last_backup, backups>>
vars   == <<data, file_names, total_cols, history, redo_stack,
            last_backup, now, backups, last, pre, failed, shared>>

----------------------------------------------------------------------------
(* Bounds of the model *)

\* history is never longer than this: edits are not called beyond it
MaxHist == 2
\* the clock stops here
MaxTime == 600
\* positions named in one delete_points / change_ids call
MaxSel == 2

(* Program constants *)
backup_interval == 300

(* Inputs *)
Lanes    == {0, 1, 2}
Points   == {<<2, 1>>}
\* the (point_1_type, point_2_type) pairs merge_lanes has a branch for, and
\* two pairs with a word that is neither
DefinedTypes == {<<"end", "start">>, <<"start", "end">>, <<"start", "start">>,
                 <<"end", "end">>}
OtherTypes   == {<<"middle", "start">>, <<"end", "middle">>}
Ticks    == {150, 300}

----------------------------------------------------------------------------
(* numpy arrays *)

YawZero == <<0, 1>>

EmptyArray == [shape |-> <<0>>, rows |-> <<>>]

Array2D(rows, c) == [shape |-> <<Len(rows), c>>, rows |-> rows]

\* ndarray.size
Size(a) == IF Len(a.shape) = 1 THEN a.shape[1] ELSE a.shape[1] * a.shape[2]

\* len(ndarray)
LenA(a) == a.shape[1]

\* a[:, -1], a[:, 3], a[:, 4] of one row
LaneOf(r)  == r[Len(r)]
FrameOf(r) == r[4]
IndexOf(r) == r[5]

\* np.zeros((1, c)): one row of c zeros
Zeros(c) == [i \in 1..c |-> IF i = 3 THEN YawZero ELSE 0]

\* whether r[k] = v raises IndexError, for a python column position k
ColInRange(c, k) == k >= -c /\ k < c

\* r[k] = v for a python column position k in range
SetCol(r, k, v) == [r EXCEPT ![IF k < 0 THEN Len(r) + k + 1 ELSE k + 1] = v]

\* the rows of s at the 1-based positions listed in idx, in that order
Take(s, idx) == [i \in 1..Len(idx) |-> s[idx[i]]]

\* np.arange(n) + 1: the 1-based positions of n rows
Iota(n) == [i \in 1..n |-> i]

\* s[::-1]
Reverse(s) == [i \in 1..Len(s) |-> s[Len(s) + 1 - i]]

Abs(n) == IF n < 0 THEN -n ELSE n

RECURSIVE GCD(_, _)
GCD(a, b) == IF b = 0 THEN a ELSE GCD(b, a % b)

\* np.arctan2(dy, dx)
ArcTan2(dy, dx) ==
  IF dy = 0 /\ dx = 0 THEN YawZero
  ELSE LET g == GCD(Abs(dy), Abs(dx)) IN <<dy \div g, dx \div g>>

\* the keys' argsorts: every order of the positions 1..Len(keys) that sorts
\* the keys ascending (np.argsort leaves the order of equal keys open)
RECURSIVE ArgSortsOf(_, _)
ArgSortsOf(keys, S) ==
  IF S = {} THEN {<<>>}
  ELSE LET least == CHOOSE i \in S : \A j \in S : keys[i] <= keys[j]
           first == {i \in S : keys[i] = keys[least]}
       IN  UNION {{<<i>> \o t : t \in ArgSortsOf(keys, S \ {i})} : i \in first}

ArgSorts(keys) == ArgSortsOf(keys, 1..Len(keys))

\* the ascending list of a set of integers
RECURSIVE SortedList(_)
SortedList(S) ==
  IF S = {} THEN <<>>
  ELSE LET m == CHOOSE i \in S : \A j \in S : i <= j
       IN  <<m>> \o SortedList(S \ {m})

\* the position (1-based) of the first element of s equal to v, 0 if none
RECURSIVE FindFrom(_, _, _)
FindFrom(s, v, i) ==
  IF i > Len(s) THEN 0 ELSE IF s[i] = v THEN i ELSE FindFrom(s, v, i + 1)

Find(s, v) == FindFrom(s, v, 1)

Range(s) == {s[i] : i \in 1..Len(s)}

----------------------------------------------------------------------------
(* Construction *)

FileNames(n) == [i \in 1..n |-> <<"file_", i - 1>>]

Row(x, y, idx, lane) == <<x, y, YawZero, idx, idx, lane>>

\* the arrays and name lists a caller constructs the engine from
InitInputs ==
  { [data |-> EmptyArray, file_names |-> FileNames(3)],
    [data |-> Array2D(<<Row(0, 0, 0, 0), Row(1, 0, 1, 0), Row(1, 1, 0, 1),
                        Row(1, 2, 1, 1), Row(0, 2, 0, 2)>>, 6),
     file_names |-> FileNames(3)],
    [data |-> Array2D(<<Row(1, 0, 1, 0), Row(0, 0, 0, 0), Row(1, 1, 0, 1)>>, 6),
     file_names |-> FileNames(1)],
    [data |-> Array2D(<<Row(0, 1, 0, 1)>>, 6), file_names |-> FileNames(2)],
    [data |-> Array2D(<<<<0, 0, YawZero, 0, 0>>, <<1, 0, YawZero, 1, 1>>>>, 5),
     file_names |-> FileNames(1)],
    [data |-> Array2D(<<<<0, 0, YawZero, 0, 1, 0>>>>, 6),
     file_names |-> FileNames(1)] }

\* a validation that looks at the shape only
InitRaises_shape_only(d) ==
  /\ Size(d) > 0
  /\ \/ Len(d.shape) # 2
     \/ d.shape[2] # 6

\* whether __init__(d, names) raises ValueError
InitRaises(d) ==
  /\ Size(d) > 0
  /\ \/ Len(d.shape) # 2
     \/ d.shape[2] # 6
     \/ \E i \in 1..Len(d.rows) : FrameOf(d.rows[i]) # IndexOf(d.rows[i])

NoFailure == [op |-> "none", args |-> <<>>, outcome |-> "ok",
              before |-> [data |-> EmptyArray, file_names |-> <<>>,
                          history |-> <<>>, redo_stack |-> <<>>,
                          last_backup |-> 0, backups |-> <<>>]]

Mutators == {"add_point", "delete_points", "change_ids",
             "remove_points_above", "remove_points_below", "merge_lanes"}

\* the engine after __init__(inp.data, inp.file_names), for the inputs given
InitFrom(inputs) ==
  \E inp \in inputs :
    /\ ~InitRaises(inp.data)
    /\ data = IF Size(inp.data) > 0 THEN inp.data ELSE EmptyArray
    /\ file_names = inp.file_names
    /\ total_cols = IF Size(inp.data) > 0 THEN inp.data.shape[2] ELSE 0
    /\ history = <<IF Size(inp.data) > 0 THEN inp.data ELSE EmptyArray>>
    /\ redo_stack = <<>>
    /\ last_backup = 0
    /\ now = 0
    /\ backups = <<>>
    /\ last = [op |-> "init", args |-> <<>>, after |-> "other", prev |-> EmptyArray,
               lens |-> <<0, 0>>, at |-> 0, due |-> FALSE,
               of |-> "none", names |-> <<>>,
               run |-> [phase |-> "edits", n |-> 0, k |-> 0, first |-> data,
                        final |-> data]]
    /\ pre = [data |-> data, file_names |-> file_names, history |-> history]
    /\ failed = NoFailure
    /\ shared = {}

Init == InitFrom(InitInputs)

\* the inputs followed with the clock running: no table, and a table of one
\* row
TimeInputs ==
  { [data |-> EmptyArray, file_names |-> FileNames(2)],
    [data |-> Array2D(<<Row(0, 1, 0, 1)>>, 6), file_names |-> FileNames(2)] }

InitTime == InitFrom(TimeInputs)

----------------------------------------------------------------------------
(* What the caller sees of the calls.  A call that did its work is "ok"; *)
(* one that returned early is "noop"; one that caught and printed an      *)
(* exception is "caught".                                                 *)
(*   last:   the last call that did its work, with its arguments; for an  *)
(*           undo or a redo also what it came after (after: an edit, the  *)
(*           undo of an edit, or a clear) and the table before that call  *)
(*           after (prev), and the lengths of history and redo_stack      *)
(*           before it (lens); the time of the call (at) and whether a    *)
(*           backup was due at that time (due); for an undo the call it   *)
(*           came after (of) and the names before that call (names);     *)
(*           and where the calls                                          *)
(*           carried out since construction stand (run): n edits (phase   *)
(*           "edits"), then k undos ("undos"), then, after n undos, k     *)
(*           redos ("redos"), with the table at construction (first) and  *)
(*           the table after the n-th edit (final); "off" after any other *)
(*           order of calls or a clear                                    *)
(*   pre:    the table, the names and the history before that call        *)
(*   failed: the call that has just ended without doing its work, with    *)
(*           the engine as it was before it; the caller takes the report  *)
(*           (Return) before it calls again                               *)
(*   shared: the stored snapshots that are the very array self.data is,   *)
(*           as <<"history", i>> for history[i]: a write into the table   *)
(*           in place is a write into each of them                        *)

Snapshot == [data |-> data, file_names |-> file_names, history |-> history,
             redo_stack |-> redo_stack, last_backup |-> last_backup,
             backups |-> backups]

\* where the calls stand after one more call op that was carried out and
\* left the table d
RunAfter(run, op, d) ==
  LET off == [phase |-> "off", n |-> 0, k |-> 0, first |-> EmptyArray,
              final |-> EmptyArray]
  IN  IF op \in Mutators
      THEN IF run.phase = "edits"
           THEN [run EXCEPT !.n = run.n + 1, !.final = d]
           ELSE off
      ELSE IF op = "undo"
      THEN IF run.phase \in {"edits", "undos"}
           THEN [run EXCEPT !.phase = "undos", !.k = run.k + 1]
           ELSE off
      ELSE IF op = "redo"
      THEN IF run.phase = "undos" /\ run.k = run.n
           THEN [run EXCEPT !.phase = "redos", !.k = 1]
           ELSE IF run.phase = "redos"
           THEN [run EXCEPT !.k = run.k + 1]
           ELSE off
      ELSE off

Log(op, args) ==
  /\ last' = [op |-> op, args |-> args,
              run |-> RunAfter(last.run, op, data'),
              of |-> IF op = "undo" THEN last.op ELSE "none",
              names |-> IF op = "undo" THEN pre.file_names ELSE <<>>,
              after |-> IF op \notin {"undo", "redo"} THEN "other"
                        ELSE IF last.op \in Mutators THEN "edit"
                        ELSE IF last.op = "undo" /\ last.after = "edit"
                             THEN "undone_edit"
                        ELSE IF last.op = "clear_data" THEN "clear"
                        ELSE "other",
              prev |-> IF op \in {"undo", "redo"} THEN pre.data ELSE EmptyArray,
              lens |-> IF op \in {"undo", "redo"}
                       THEN <<Len(history), Len(redo_stack)>> ELSE <<0, 0>>,
              at |-> now,
              due |-> now - last_backup >= backup_interval]
  /\ pre' = [data |-> data, file_names |-> file_names, history |-> history]
  /\ UNCHANGED failed

Report(op, args, outcome) ==
  /\ failed' = [op |-> op, args |-> args, outcome |-> outcome, before |-> Snapshot]
  /\ UNCHANGED <<last, pre, shared>>

Idle == failed.op = "none"

Return ==
  /\ ~Idle
  /\ failed' = NoFailure
  /\ UNCHANGED <<data, file_names, total_cols, history, redo_stack,
                 last_backup, now, backups, last, pre, shared>>

----------------------------------------------------------------------------
(* Arrays as objects *)

\* self.data is bound to an array made by the call (np.vstack, a boolean
\* mask, np.array([]), a popped snapshot): no stored snapshot is that array
NewTable == shared' = {}

\* history[-1] taken as the table itself, without the copy
history_last_copy_same_array(h) == {<<"history", Len(h)>>}

\* history[-1].copy(): a new array, which no stored snapshot is
history_last_copy(h) == {}

\* what history reads after a write into the array self.data is, d being
\* the rows of that array after the write
WrittenInPlace(h, d) ==
  [i \in 1..Len(h) |-> IF <<"history", i>> \in shared THEN d ELSE h[i]]

----------------------------------------------------------------------------
(* _auto_save_backup *)

\* data[:, :3]
FirstThree(a) == [i \in 1..Len(a.rows) |-> SubSeq(a.rows[i], 1, 3)]

\* a backup that leaves last_backup where it was
auto_save_backup_keeps_clock(d) ==
  IF now - last_backup < backup_interval
  THEN UNCHANGED <<last_backup, backups>>
  ELSE \E io_ok \in BOOLEAN :
         IF io_ok
         THEN /\ backups' = IF Size(d) > 0
                            THEN Append(backups, [at |-> now, rows |-> FirstThree(d)])
                            ELSE backups
              /\ UNCHANGED last_backup
         ELSE UNCHANGED <<last_backup, backups>>

\* a backup that moves last_backup on even when the write has failed
auto_save_backup_failure_moves_clock(d) ==
  IF now - last_backup < backup_interval
  THEN UNCHANGED <<last_backup, backups>>
  ELSE \E io_ok \in BOOLEAN :
         IF io_ok
         THEN /\ backups' = IF Size(d) > 0
                            THEN Append(backups, [at |-> now, rows |-> FirstThree(d)])
                            ELSE backups
              /\ last_backup' = now
         ELSE last_backup' = now /\ UNCHANGED backups

auto_save_backup(d) ==
  IF now - last_backup < backup_interval
  THEN UNCHANGED <<last_backup, backups>>
  ELSE \E io_ok \in BOOLEAN :
         IF io_ok
         THEN /\ backups' = IF Size(d) > 0
                            THEN Append(backups, [at |-> now, rows |-> FirstThree(d)])
                            ELSE backups
              /\ last_backup' = now
         ELSE UNCHANGED <<last_backup, backups>>

\* an edit that forgets to empty redo_stack
PushHistory_keeps_redo(d) ==
  /\ history' = Append(history, d)
  /\ UNCHANGED redo_stack
  /\ auto_save_backup(d)

\* a push of the table as it was before the edit
PushHistory_table_before(d) ==
  /\ history' = Append(history, data)
  /\ redo_stack' = <<>>
  /\ auto_save_backup(d)

\* history.append(data.copy()); redo_stack = []; _auto_save_backup()
PushHistory(d) ==
  /\ history' = Append(history, d)
  /\ redo_stack' = <<>>
  /\ auto_save_backup(d)

\* a call that ends before it assigns anything
Rejected(op, args, outcome) ==
  /\ UNCHANGED <<data, file_names, total_cols, history, redo_stack,
                 last_backup, backups, now>>
  /\ Report(op, args, outcome)

----------------------------------------------------------------------------
(* add_point *)

\* add_point that sets the index column and forgets frame_idx
new_point_index_only(x, y, lane_id, n, c) ==
  SetCol(SetCol(SetCol(SetCol(Zeros(c), 0, x), 1, y), -1, lane_id), 4, n)

\* the row add_point builds, on a table of n rows
new_point(x, y, lane_id, n, c) ==
  SetCol(SetCol(SetCol(SetCol(SetCol(Zeros(c), 0, x), 1, y), -1, lane_id), 3, n), 4, n)

\* add_point that stacks the new row above the table
add_point_result_on_top(d, c, x, y, lane_id) ==
  IF ~(ColInRange(c, 0) /\ ColInRange(c, 1) /\ ColInRange(c, -1)
       /\ ColInRange(c, 3) /\ ColInRange(c, 4))
  THEN [outcome |-> "caught", data |-> d]
  ELSE LET p == new_point(x, y, lane_id, LenA(d), c)
       IN  [outcome |-> "ok",
            data |-> IF Size(d) > 0 THEN Array2D(<<p>> \o d.rows, d.shape[2])
                     ELSE Array2D(<<p>>, c)]

add_point_result(d, c, x, y, lane_id) ==
  IF ~(ColInRange(c, 0) /\ ColInRange(c, 1) /\ ColInRange(c, -1)
       /\ ColInRange(c, 3) /\ ColInRange(c, 4))
  THEN [outcome |-> "caught", data |-> d]
  ELSE LET p == new_point(x, y, lane_id, LenA(d), c)
       IN  [outcome |-> "ok",
            data |-> IF Size(d) > 0 THEN Array2D(Append(d.rows, p), d.shape[2])
                     ELSE Array2D(<<p>>, c)]

\* the calls followed: edits up to MaxHist snapshots, and one more for a row
\* added to a table that the edit before has emptied
add_point(x, y, lane_id) ==
  /\ Idle
  /\ Len(history) < MaxHist \/ (LenA(data) = 0 /\ Len(history) = MaxHist)
  /\ LET r == add_point_result(data, total_cols, x, y, lane_id)
     IN  IF r.outcome = "ok"
         THEN /\ data' = r.data
              /\ PushHistory(r.data)
              /\ UNCHANGED <<file_names, total_cols, now>>
              /\ NewTable
              /\ Log("add_point", <<x, y, lane_id>>)
         ELSE Rejected("add_point", <<x, y, lane_id>>, r.outcome)

----------------------------------------------------------------------------
(* delete_points *)

\* data[mask] with the mask the wrong way round: True at the positions of
\* indices
Masked_inverted(rows, indices) ==
  Take(rows, SelectSeq(Iota(Len(rows)), LAMBDA i : (i - 1) \in Range(indices)))

\* data[mask] with mask False at the positions of indices
Masked(rows, indices) ==
  Take(rows, SelectSeq(Iota(Len(rows)), LAMBDA i : (i - 1) \notin Range(indices)))

\* a renumbering that leaves the numbers the rows had
Renumbered_keeps_numbers(rows) == rows

\* data[:, 3] = data[:, 4] = np.arange(len(data))
Renumbered(rows) ==
  [i \in 1..Len(rows) |-> SetCol(SetCol(rows[i], 3, i - 1), 4, i - 1)]

\* delete_points that skips the positions out of bounds and deletes the rest
delete_points_result_skips_invalid(d, c, indices) ==
  LET valid == SelectSeq(indices, LAMBDA i : 0 <= i /\ i < LenA(d))
      kept == Masked(d.rows, valid)
  IN  IF valid = <<>> THEN [outcome |-> "noop", data |-> d]
      ELSE [outcome |-> "ok",
            data |-> IF kept = <<>> THEN Array2D(<<>>, c)
                     ELSE Array2D(Renumbered(kept), d.shape[2])]

\* delete_points without the return on an empty list
delete_points_result_no_early_return(d, c, indices) ==
  IF \E k \in 1..Len(indices) : indices[k] < 0 \/ indices[k] >= LenA(d)
  THEN [outcome |-> "noop", data |-> d]
  ELSE LET kept == Masked(d.rows, indices)
       IN  [outcome |-> "ok",
            data |-> IF kept = <<>> THEN Array2D(<<>>, c)
                     ELSE Array2D(Renumbered(kept), d.shape[2])]

delete_points_result(d, c, indices) ==
  IF indices = <<>> THEN [outcome |-> "noop", data |-> d]
  ELSE IF \E k \in 1..Len(indices) : indices[k] < 0 \/ indices[k] >= LenA(d)
  THEN [outcome |-> "noop", data |-> d]
  ELSE LET kept == Masked(d.rows, indices)
       IN  [outcome |-> "ok",
            data |-> IF kept = <<>> THEN Array2D(<<>>, c)
                     ELSE Array2D(Renumbered(kept), d.shape[2])]

\* the index lists a caller may pass: up to MaxSel rows of the table, lists
\* with a position before the first row or past the last, and a list that
\* names a row twice
IndexLists ==
  {SortedList(S) : S \in {T \in SUBSET (0..(LenA(data) - 1)) : Cardinality(T) <= MaxSel}}
  \cup {<<-1>>, <<LenA(data)>>, <<0, LenA(data)>>, <<-1, 0>>, <<0, 0>>}

delete_points(indices) ==
  /\ Idle
  /\ Len(history) < MaxHist
  /\ LET r == delete_points_result(data, total_cols, indices)
     IN  IF r.outcome = "ok"
         THEN /\ data' = r.data
              /\ PushHistory(r.data)
              /\ UNCHANGED <<file_names, total_cols, now>>
              /\ NewTable
              /\ Log("delete_points", <<indices>>)
         ELSE Rejected("delete_points", <<indices>>, r.outcome)

----------------------------------------------------------------------------
(* change_ids *)

\* whether data[indices, -1] = v raises IndexError
FancyIndexRaises(d, indices) ==
  \/ Len(d.shape) # 2
  \/ ~ColInRange(d.shape[2], -1)
  \/ \E k \in 1..Len(indices) : indices[k] < -LenA(d) \/ indices[k] >= LenA(d)

\* the 1-based row a python row position names
RowAt(d, i) == IF i < 0 THEN LenA(d) + i + 1 ELSE i + 1

\* change_ids that relabels the whole lane of every row named
change_ids_result_whole_lane(d, indices, new_id) ==
  IF indices = <<>> THEN [outcome |-> "noop", data |-> d]
  ELSE IF FancyIndexRaises(d, indices) THEN [outcome |-> "caught", data |-> d]
  ELSE LET lanes == {LaneOf(d.rows[RowAt(d, indices[k])]) : k \in 1..Len(indices)}
       IN  [outcome |-> "ok",
            data |-> [d EXCEPT !.rows =
                        [i \in 1..Len(d.rows) |->
                           IF LaneOf(d.rows[i]) \in lanes
                           THEN SetCol(d.rows[i], -1, new_id)
                           ELSE d.rows[i]]]]

change_ids_result(d, indices, new_id) ==
  IF indices = <<>> THEN [outcome |-> "noop", data |-> d]
  ELSE IF FancyIndexRaises(d, indices) THEN [outcome |-> "caught", data |-> d]
  ELSE LET named == {RowAt(d, indices[k]) : k \in 1..Len(indices)}
       IN  [outcome |-> "ok",
            data |-> [d EXCEPT !.rows =
                        [i \in 1..Len(d.rows) |->
                           IF i \in named THEN SetCol(d.rows[i], -1, new_id)
                           ELSE d.rows[i]]]]

change_ids(indices, new_id) ==
  /\ Idle
  /\ Len(history) < MaxHist
  /\ LET r == change_ids_result(data, indices, new_id)
     IN  IF r.outcome = "ok"
         THEN /\ data' = r.data
              /\ history' = Append(WrittenInPlace(history, r.data), r.data)
              /\ redo_stack' = <<>>
              /\ auto_save_backup(r.data)
              /\ shared' = {s \in shared : s[1] = "history"}
              /\ UNCHANGED <<file_names, total_cols, now>>
              /\ Log("change_ids", <<indices, new_id>>)
         ELSE Rejected("change_ids", <<indices, new_id>>, r.outcome)

----------------------------------------------------------------------------
(* remove_points_above, remove_points_below *)

\* np.where(data[:, -1] == lane_id)[0], as 1-based rows
LaneRows(d, lane_id) ==
  SelectSeq(Iota(Len(d.rows)), LAMBDA i : LaneOf(d.rows[i]) = lane_id)

\* lane_data[:, 4]: the index column of the rows listed
IndexColumn(d, rws) == [k \in 1..Len(rws) |-> IndexOf(d.rows[rws[k]])]

\* remove_points_above that removes the clicked row too
above_to_remove_through_index(d, index, lane_id, sorted_indices) ==
  LET lane_indices == LaneRows(d, lane_id)
      sorted_global_indices == Take(lane_indices, sorted_indices)
      local_index == Find(sorted_global_indices, index + 1)
  IN  IF local_index = 0 THEN <<>>
      ELSE [k \in 1..local_index |-> sorted_global_indices[k] - 1]

\* the python positions remove_points_above hands to delete_points, the lane
\* sorted by sorted_indices; <<>> when it returns before that
above_to_remove(d, index, lane_id, sorted_indices) ==
  LET lane_indices == LaneRows(d, lane_id)
      sorted_global_indices == Take(lane_indices, sorted_indices)
      local_index == Find(sorted_global_indices, index + 1)
  IN  IF local_index = 0 THEN <<>>
      ELSE [k \in 1..(local_index - 1) |-> sorted_global_indices[k] - 1]

\* a return that empties redo_stack on its way out
remove_points_above_return_drops_redo(args) ==
  /\ redo_stack' = <<>>
  /\ UNCHANGED <<data, file_names, total_cols, history, last_backup, backups, now>>
  /\ Report("remove_points_above", args, "noop")

\* "Invalid index or lane mismatch": print and return
remove_points_above_return(args) == Rejected("remove_points_above", args, "noop")

remove_points_above(index, lane_id) ==
  /\ Idle
  /\ Len(history) < MaxHist
  /\ IF index < 0 \/ index >= LenA(data)
     THEN remove_points_above_return(<<index, lane_id>>)
     ELSE IF LaneOf(data.rows[index + 1]) # lane_id
     THEN remove_points_above_return(<<index, lane_id>>)
     ELSE \E sorted_indices \in ArgSorts(IndexColumn(data, LaneRows(data, lane_id))) :
            LET list_ == above_to_remove(data, index, lane_id, sorted_indices)
                r == delete_points_result(data, total_cols, list_)
            IN  IF r.outcome = "ok"
                THEN /\ data' = r.data
                     /\ PushHistory(r.data)
                     /\ UNCHANGED <<file_names, total_cols, now>>
                     /\ NewTable
                     /\ Log("remove_points_above", <<index, lane_id>>)
                ELSE Rejected("remove_points_above", <<index, lane_id>>, r.outcome)

\* remove_points_below that starts after the position given
below_to_remove_after(d, index, lane_id) ==
  LET lane_indices == LaneRows(d, lane_id)
      hit == SelectSeq(lane_indices, LAMBDA g : g - 1 > index)
  IN  [k \in 1..Len(hit) |-> hit[k] - 1]

\* the python positions remove_points_below hands to delete_points
below_to_remove(d, index, lane_id) ==
  LET lane_indices == LaneRows(d, lane_id)
      hit == SelectSeq(lane_indices, LAMBDA g : g - 1 >= index)
  IN  [k \in 1..Len(hit) |-> hit[k] - 1]

remove_points_below(index, lane_id) ==
  /\ Idle
  /\ Len(history) < MaxHist
  /\ IF index < 0 \/ index >= LenA(data)
     THEN Rejected("remove_points_below", <<index, lane_id>>, "noop")
     ELSE IF LaneRows(data, lane_id) = <<>>
     THEN Rejected("remove_points_below", <<index, lane_id>>, "noop")
     ELSE LET list_ == below_to_remove(data, index, lane_id)
              r == delete_points_result(data, total_cols, list_)
          IN  IF r.outcome = "ok"
              THEN /\ data' = r.data
                   /\ PushHistory(r.data)
                   /\ UNCHANGED <<file_names, total_cols, now>>
                   /\ NewTable
                   /\ Log("remove_points_below", <<index, lane_id>>)
              ELSE Rejected("remove_points_below", <<index, lane_id>>, r.outcome)

----------------------------------------------------------------------------
(* merge_lanes *)

\* lane_1_part: the slice of the sorted lane 1 that point_1_type selects
lane_1_part(lane_1_sorted, point_1_local, point_1_type) ==
  IF point_1_type = "end"
  THEN SubSeq(lane_1_sorted, 1, point_1_local)
  ELSE SubSeq(lane_1_sorted, point_1_local, Len(lane_1_sorted))

\* a chain of branches whose last one is an else: lane_2_part is always bound
lane_2_bound_last_is_else(point_1_type, point_2_type) == TRUE

\* whether one of the four branches binds lane_2_part
lane_2_bound(point_1_type, point_2_type) ==
  point_1_type \in {"start", "end"} /\ point_2_type \in {"start", "end"}

\* lane_2_part: lane 2 as sorted, or reversed
lane_2_part(lane_2_sorted, point_1_type, point_2_type) ==
  IF point_2_type = "start" /\ point_1_type = "end" THEN lane_2_sorted
  ELSE IF point_2_type = "end" /\ point_1_type = "start" THEN lane_2_sorted
  ELSE Reverse(lane_2_sorted)

\* a yaw pass that leaves the last row at yaw 0
WithYaw_last_zero(m) ==
  LET N == Len(m)
      yaw(i) == ArcTan2(m[i + 1][2] - m[i][2], m[i + 1][1] - m[i][1])
  IN  [i \in 1..N |-> SetCol(m[i], 2, IF i < N THEN yaw(i) ELSE YawZero)]

\* merged_data[i, 2] = arctan2(dy, dx) towards the next row; the last row
\* copies the row before it
WithYaw(m) ==
  LET N == Len(m)
      yaw(i) == ArcTan2(m[i + 1][2] - m[i][2], m[i + 1][1] - m[i][1])
  IN  [i \in 1..N |->
         SetCol(m[i], 2, IF i < N THEN yaw(i)
                         ELSE IF N > 1 THEN yaw(N - 1) ELSE YawZero)]

\* merged_data: both parts stacked, relabelled, yaw recomputed, renumbered
merged_data(part_1, part_2, lane_id_1) ==
  Renumbered(WithYaw([i \in 1..(Len(part_1) + Len(part_2)) |->
               SetCol(IF i <= Len(part_1) THEN part_1[i] ELSE part_2[i - Len(part_1)],
                      -1, lane_id_1)]))

\* the mask of the other lanes taken as "not lane 1"
other_data_not_lane_1(d, lane_id_1, lane_id_2) ==
  SelectSeq(d.rows, LAMBDA r : LaneOf(r) # lane_id_1)

\* data[other_lanes_mask]
other_data(d, lane_id_1, lane_id_2) ==
  SelectSeq(d.rows, LAMBDA r : LaneOf(r) \notin {lane_id_1, lane_id_2})

LaneName(i) == <<"Lane_", i>>

\* a name list that grows to cover the lanes and is never cut
resized_names_never_cut(names, rows) ==
  LET ids == {LaneOf(rows[i]) : i \in 1..Len(rows)}
      top == CHOOSE m \in ids : \A j \in ids : j <= m
      n == IF top + 1 > Len(names) THEN top + 1 ELSE Len(names)
  IN  [i \in 1..n |-> IF i - 1 < Len(names) THEN names[i] ELSE LaneName(i - 1)]

\* the name list rebuilt over range(max(lane ids) + 1)
resized_names(names, rows) ==
  LET ids == {LaneOf(rows[i]) : i \in 1..Len(rows)}
      top == CHOOSE m \in ids : \A j \in ids : j <= m
  IN  [i \in 1..(IF top + 1 > 0 THEN top + 1 ELSE 0) |->
         IF i - 1 < Len(names) THEN names[i] ELSE LaneName(i - 1)]

\* merge_lanes that relabels lane 2 in the table itself before it looks the
\* points up
merge_lanes_result_relabels_first(d, names, lane_id_1, lane_id_2, point_1, point_2, point_1_type, point_2_type, sort_1, sort_2) ==
  LET lane_1_indices == LaneRows(d, lane_id_1)
      lane_2_indices == LaneRows(d, lane_id_2)
      relabelled == [d EXCEPT !.rows =
                       [i \in 1..Len(d.rows) |->
                          IF LaneOf(d.rows[i]) = lane_id_2
                          THEN SetCol(d.rows[i], -1, lane_id_1) ELSE d.rows[i]]]
      point_1_local == Find(lane_1_indices, point_1 + 1)
      point_2_local == Find(lane_2_indices, point_2 + 1)
  IN  IF point_1_local = 0 \/ point_2_local = 0
           \/ ~lane_2_bound(point_1_type, point_2_type)
      THEN [outcome |-> "caught", data |-> relabelled, file_names |-> names]
      ELSE LET merged == merged_data(
                           lane_1_part(Take(Take(d.rows, lane_1_indices), sort_1),
                                       point_1_local, point_1_type),
                           lane_2_part(Take(Take(d.rows, lane_2_indices), sort_2),
                                       point_1_type, point_2_type),
                           lane_id_1)
               rows == merged \o other_data(d, lane_id_1, lane_id_2)
           IN  [outcome |-> "ok",
                data |-> Array2D(rows, d.shape[2]),
                file_names |-> resized_names(names, rows)]

\* the table after the statements of merge_lanes up to the one that raises,
\* or after all of them; sort_1, sort_2 are the argsorts of the two lanes
merge_lanes_result(d, names, lane_id_1, lane_id_2, point_1, point_2, point_1_type, point_2_type, sort_1, sort_2) ==
  LET lane_1_indices == LaneRows(d, lane_id_1)
      lane_2_indices == LaneRows(d, lane_id_2)
      lane_1_sorted == Take(Take(d.rows, lane_1_indices), sort_1)
      lane_2_sorted == Take(Take(d.rows, lane_2_indices), sort_2)
      point_1_local == Find(lane_1_indices, point_1 + 1)
      point_2_local == Find(lane_2_indices, point_2 + 1)
  IN  IF point_1_local = 0 \/ point_2_local = 0
           \/ ~lane_2_bound(point_1_type, point_2_type)
      THEN [outcome |-> "caught", data |-> d, file_names |-> names]
      ELSE LET merged == merged_data(
                           lane_1_part(lane_1_sorted, point_1_local, point_1_type),
                           lane_2_part(lane_2_sorted, point_1_type, point_2_type),
                           lane_id_1)
               rows == merged \o other_data(d, lane_id_1, lane_id_2)
           IN  [outcome |-> "ok",
                data |-> Array2D(rows, d.shape[2]),
                file_names |-> resized_names(names, rows)]

\* a return that comes after the history push
merge_lanes_return_after_push(args) ==
  /\ PushHistory(data)
  /\ UNCHANGED <<data, file_names, total_cols, now>>
  /\ Report("merge_lanes", args, "noop")

\* "No data to merge" / "One or both lanes are empty": print and return
merge_lanes_return(args) == Rejected("merge_lanes", args, "noop")

merge_lanes(lane_id_1, lane_id_2, point_1, point_2, point_1_type, point_2_type) ==
  /\ Idle
  /\ Len(history) < MaxHist
  /\ IF Size(data) = 0
     THEN merge_lanes_return(<<lane_id_1, lane_id_2, point_1, point_2, point_1_type, point_2_type>>)
     ELSE IF LaneRows(data, lane_id_1) = <<>> \/ LaneRows(data, lane_id_2) = <<>>
     THEN merge_lanes_return(<<lane_id_1, lane_id_2, point_1, point_2, point_1_type, point_2_type>>)
     ELSE \E sort_1 \in ArgSorts(IndexColumn(data, LaneRows(data, lane_id_1))),
             sort_2 \in ArgSorts(IndexColumn(data, LaneRows(data, lane_id_2))) :
            /\ lane_id_1 = lane_id_2 => sort_1 = sort_2
            /\ LET r == merge_lanes_result(data, file_names, lane_id_1, lane_id_2,
                                           point_1, point_2, point_1_type,
                                           point_2_type, sort_1, sort_2)
               IN  IF r.outcome = "ok"
                   THEN /\ data' = r.data
                        /\ file_names' = r.file_names
                        /\ PushHistory(r.data)
                        /\ UNCHANGED <<total_cols, now>>
                        /\ NewTable
                        /\ Log("merge_lanes",
                               <<lane_id_1, lane_id_2, point_1, point_2,
                                 point_1_type, point_2_type>>)
                   ELSE /\ data' = r.data
                        /\ file_names' = r.file_names
                        /\ UNCHANGED <<total_cols, history, redo_stack,
                                       last_backup, backups, now>>
                        /\ Report("merge_lanes", <<lane_id_1, lane_id_2, point_1, point_2, point_1_type, point_2_type>>, r.outcome)

----------------------------------------------------------------------------
(* clear_data, undo, redo *)

\* clear_data that keeps the table it discards as the baseline of history
clear_data_keeps_baseline ==
  /\ Idle
  /\ data' = EmptyArray
  /\ history' = <<data>>
  /\ redo_stack' = <<>>
  /\ file_names' = <<>>
  /\ auto_save_backup(EmptyArray)
  /\ UNCHANGED <<total_cols, now>>
  /\ NewTable
  /\ Log("clear_data", <<>>)

\* clear_data that appends the empty table to history as the edits do
clear_data_appends ==
  /\ Idle
  /\ data' = EmptyArray
  /\ history' = Append(history, EmptyArray)
  /\ redo_stack' = <<>>
  /\ file_names' = <<>>
  /\ auto_save_backup(EmptyArray)
  /\ UNCHANGED <<total_cols, now>>
  /\ NewTable
  /\ Log("clear_data", <<>>)

clear_data ==
  /\ Idle
  /\ data' = EmptyArray
  /\ history' = <<EmptyArray>>
  /\ redo_stack' = <<>>
  /\ file_names' = <<>>
  /\ auto_save_backup(EmptyArray)
  /\ UNCHANGED <<total_cols, now>>
  /\ NewTable
  /\ Log("clear_data", <<>>)

\* the test of undo off by one
nothing_to_undo_off_by_one(h) == Len(h) < 1

\* len(self.history) <= 1
nothing_to_undo(h) == Len(h) <= 1

\* undo that moves the snapshot and leaves the table as it is
undo_result_keeps_table(d, h, r) ==
  IF Len(h) = 0 THEN [outcome |-> "caught", redo_stack |-> r, history |-> h, data |-> d]
  ELSE IF Len(h) = 1
  THEN [outcome |-> "caught", redo_stack |-> Append(r, h[1]), history |-> <<>>,
        data |-> d]
  ELSE [outcome |-> "ok",
        redo_stack |-> Append(r, h[Len(h)]),
        history |-> SubSeq(h, 1, Len(h) - 1),
        data |-> d]

\* undo that pops the snapshot and does not keep it for redo
undo_result_forgets_snapshot(d, h, r) ==
  IF Len(h) = 0 THEN [outcome |-> "caught", redo_stack |-> r, history |-> h, data |-> d]
  ELSE IF Len(h) = 1
  THEN [outcome |-> "caught", redo_stack |-> r, history |-> <<>>, data |-> d]
  ELSE [outcome |-> "ok",
        redo_stack |-> r,
        history |-> SubSeq(h, 1, Len(h) - 1),
        data |-> h[Len(h) - 1]]

\* redo_stack.append(history.pop()); data = history[-1].copy(): the pop is
\* done when history[-1] raises IndexError on the history it emptied
undo_result(d, h, r) ==
  IF Len(h) = 0 THEN [outcome |-> "caught", redo_stack |-> r, history |-> h, data |-> d]
  ELSE IF Len(h) = 1
  THEN [outcome |-> "caught", redo_stack |-> Append(r, h[1]), history |-> <<>>,
        data |-> d]
  ELSE [outcome |-> "ok",
        redo_stack |-> Append(r, h[Len(h)]),
        history |-> SubSeq(h, 1, Len(h) - 1),
        data |-> h[Len(h) - 1]]

undo ==
  /\ Idle
  /\ IF nothing_to_undo(history)
     THEN Rejected("undo", <<>>, "noop")
     ELSE LET u == undo_result(data, history, redo_stack)
          IN  /\ redo_stack' = u.redo_stack
              /\ history' = u.history
              /\ data' = u.data
              /\ UNCHANGED <<file_names, total_cols, now>>
              /\ IF u.outcome = "ok"
                 THEN /\ auto_save_backup(u.data)
                      /\ shared' = history_last_copy(u.history)
                      /\ Log("undo", <<>>)
                 ELSE UNCHANGED <<last_backup, backups>> /\ Report("undo", <<>>, u.outcome)

\* not self.redo_stack
nothing_to_redo(r) == r = <<>>

\* redo that moves the snapshot and leaves the table as it is
redo_result_keeps_table(d, h, r) ==
  IF Len(r) = 0 THEN [outcome |-> "caught", data |-> d, redo_stack |-> r, history |-> h]
  ELSE [outcome |-> "ok",
        data |-> d,
        redo_stack |-> SubSeq(r, 1, Len(r) - 1),
        history |-> Append(h, d)]

\* redo that forgets to append to history
redo_result_no_push(d, h, r) ==
  IF Len(r) = 0 THEN [outcome |-> "caught", data |-> d, redo_stack |-> r, history |-> h]
  ELSE [outcome |-> "ok",
        data |-> r[Len(r)],
        redo_stack |-> SubSeq(r, 1, Len(r) - 1),
        history |-> h]

\* data = redo_stack.pop(); history.append(data.copy()): pop raises
\* IndexError on an empty list
redo_result(d, h, r) ==
  IF Len(r) = 0 THEN [outcome |-> "caught", data |-> d, redo_stack |-> r, history |-> h]
  ELSE [outcome |-> "ok",
        data |-> r[Len(r)],
        redo_stack |-> SubSeq(r, 1, Len(r) - 1),
        history |-> Append(h, r[Len(r)])]

redo ==
  /\ Idle
  /\ IF nothing_to_redo(redo_stack)
     THEN Rejected("redo", <<>>, "noop")
     ELSE LET u == redo_result(data, history, redo_stack)
          IN  /\ data' = u.data
              /\ redo_stack' = u.redo_stack
              /\ history' = u.history
              /\ UNCHANGED <<file_names, total_cols, now>>
              /\ IF u.outcome = "ok"
                 THEN auto_save_backup(u.data) /\ NewTable /\ Log("redo", <<>>)
                 ELSE UNCHANGED <<last_backup, backups>> /\ Report("redo", <<>>, u.outcome)

----------------------------------------------------------------------------
(* time.time() moves on between calls *)

Tick ==
  /\ \E dt \in Ticks : now + dt <= MaxTime /\ now' = now + dt
  /\ UNCHANGED <<data, file_names, total_cols, history, redo_stack,
                 last_backup, backups, last, pre, failed, shared>>

----------------------------------------------------------------------------

\* the positions a caller may pass: every row, one before the first and one
\* past the last
Positions == -1..LenA(data)

AddPoint == \E p \in Points, lane_id \in Lanes : add_point(p[1], p[2], lane_id)

DeletePoints == \E indices \in IndexLists : delete_points(indices)

ChangeIds == \E indices \in IndexLists, new_id \in Lanes : change_ids(indices, new_id)

RemovePointsAbove ==
  \E index \in Positions, lane_id \in Lanes : remove_points_above(index, lane_id)

RemovePointsBelow ==
  \E index \in Positions, lane_id \in Lanes : remove_points_below(index, lane_id)

\* the merge calls a caller may make: every call that names a row of each
\* lane with a defined pair of types (no other call succeeds), the calls
\* that name one position for both lanes whatever the lanes, and calls
\* with a type that is neither "start" nor "end"
MergeCalls ==
  LET rows == 0..(LenA(data) - 1)
      lane(p) == LaneOf(data.rows[p + 1])
  IN  {<<lane(p1), lane(p2), p1, p2, t[1], t[2]>> :
         p1 \in rows, p2 \in rows, t \in DefinedTypes}
      \cup {<<l1, l2, p, p, "end", "start">> :
              l1 \in Lanes, l2 \in Lanes, p \in Positions}
      \cup {<<lane(0), lane(p2), 0, p2, t[1], t[2]>> :
              p2 \in rows, t \in OtherTypes}

MergeLanes ==
  \E c \in MergeCalls : merge_lanes(c[1], c[2], c[3], c[4], c[5], c[6])

ClearData == clear_data

Undo == undo

Redo == redo

Next ==
  \/ AddPoint
  \/ DeletePoints
  \/ ChangeIds
  \/ RemovePointsAbove
  \/ RemovePointsBelow
  \/ MergeLanes
  \/ ClearData
  \/ Undo
  \/ Redo
  \/ Return

Spec == Init /\ [][Next]_vars

\* the same calls with the clock running between them
NextTime == Next \/ Tick

SpecTime == InitTime /\ [][NextTime]_vars

----------------------------------------------------------------------------
(* Claims *)

Edits == {"add_point", "delete_points", "change_ids", "merge_lanes"}

\* C1: undo() right after an edit that did its work (add_point,
\* delete_points, change_ids, remove_points_above/below, merge_lanes)
\* succeeds, and the table is then the table that existed before that edit.
C1_UndoRestoresTableBeforeEdit ==
  /\ (last.op = "undo" /\ last.after = "edit") => data = last.prev
  /\ failed.op = "undo" => last.op \notin Mutators

\* an undo of an edit has changed the table
C1_Witness ==
  /\ Idle /\ last.op = "undo" /\ last.after = "edit"
  /\ data # pre.data /\ LenA(data) > 0

\* C2: an edit that did its work, then undo(), then redo(): redo succeeds
\* and the table is the table the edit produced.
C2_RedoRestoresEditedTable ==
  /\ (last.op = "redo" /\ last.after = "undone_edit") => data = last.prev
  /\ failed.op = "redo" => last.op # "undo"

\* a redo of an undone edit has changed the table
C2_Witness ==
  /\ Idle /\ last.op = "redo" /\ last.after = "undone_edit"
  /\ data # pre.data /\ LenA(data) > 0

\* C3: in every reachable state every row of the table has
\* frame_idx = index, and the table has six columns or is the empty
\* zero-row array.
C3_FrameIsIndexAndSixColumns ==
  /\ \A i \in 1..Len(data.rows) : FrameOf(data.rows[i]) = IndexOf(data.rows[i])
  /\ \/ data = EmptyArray
     \/ /\ Len(data.shape) = 2
        /\ data.shape[2] = 6
        /\ data.shape[1] = Len(data.rows)
        /\ \A i \in 1..Len(data.rows) : Len(data.rows[i]) = 6

\* a merged table next to rows of another lane, all renumbered
C3_Witness ==
  /\ last.op = "merge_lanes"
  /\ LenA(data) >= 4
  /\ \E i \in 1..Len(data.rows) : IndexOf(data.rows[i]) = 3

\* C4: add_point, delete_points, change_ids and merge_lanes that did their
\* work have appended exactly one snapshot, equal to the new table, to
\* history and left redo_stack empty; redo() after such an edit is refused
\* and leaves the table as it is.
C4_EditPushesOneSnapshotAndEmptiesRedo ==
  /\ last.op \in Edits =>
       /\ history = Append(pre.history, data)
       /\ redo_stack = <<>>
  /\ last.op = "redo" => last.after # "edit"
  /\ (failed.op = "redo" /\ last.op \in Edits) =>
       /\ failed.outcome = "noop"
       /\ data = failed.before.data

\* redo refused after add_point on the table an undone merge left: the
\* names the merge cut to two are still two
C4_Witness ==
  /\ failed.op = "redo"
  /\ last.op = "add_point"
  /\ LenA(data) = 6
  /\ Len(file_names) = 2
  /\ Len(history) = 2

\* C5: undo() on a history of one element and redo() on an empty
\* redo_stack report failure and leave table, history and redo_stack as
\* they are, however often they are called.
C5_NothingToUndoOrRedoIsNoOp ==
  /\ last.op = "undo" => last.lens[1] > 1
  /\ last.op = "redo" => last.lens[2] > 0
  /\ failed.op \in {"undo", "redo"} =>
       /\ failed.outcome = "noop"
       /\ data = failed.before.data
       /\ history = failed.before.history
       /\ redo_stack = failed.before.redo_stack

\* undo refused again after an undo that did its work
C5_Witness ==
  /\ failed.op = "undo"
  /\ last.op = "undo"
  /\ Len(history) = 1
  /\ Len(redo_stack) = 1

\* what every call but clear_data does to history
HistoryStep ==
  /\ Len(history) >= 1
  /\ last.op \in Mutators \cup {"redo"} => history = Append(pre.history, data)
  /\ last.op = "undo" =>
       /\ Len(pre.history) >= 2
       /\ history = SubSeq(pre.history, 1, Len(pre.history) - 1)
  /\ last.op = "init" => history = pre.history
  /\ ~Idle => history = failed.before.history

C7_FailedMergeChangesNothing ==
  failed.op = "merge_lanes" =>
    /\ failed.outcome \in {"noop", "caught"}
    /\ data = failed.before.data
    /\ file_names = failed.before.file_names
    /\ history = failed.before.history
    /\ redo_stack = failed.before.redo_stack

\* merge_lanes has caught its exception on a table with two lanes
C7_Witness ==
  /\ failed.op = "merge_lanes"
  /\ failed.outcome = "caught"
  /\ \E i, j \in 1..Len(data.rows) : LaneOf(data.rows[i]) # LaneOf(data.rows[j])

\* the (x, y) of a row
XY(r) == <<r[1], r[2]>>

\* the arguments of the last merge_lanes that did its work
MergeArgs ==
  [lane_id_1 |-> last.args[1], lane_id_2 |-> last.args[2],
   point_1 |-> last.args[3], point_2 |-> last.args[4],
   point_1_type |-> last.args[5], point_2_type |-> last.args[6]]

MergedTwoLanes == last.op = "merge_lanes" /\ last.args[1] # last.args[2]

\* the merged lane in the table after a merge of two lanes: the rows that
\* carry lane 1's id
MergedLane == SelectSeq(data.rows, LAMBDA r : LaneOf(r) = last.args[1])

\* C8 as claimed: after a merge of two lanes, whatever the two types, the
\* row point_1 named and the row point_2 named are next to each other in
\* the merged lane.
C8_MergedPointsAreAdjacent ==
  MergedTwoLanes =>
    LET a == XY(pre.data.rows[MergeArgs.point_1 + 1])
        b == XY(pre.data.rows[MergeArgs.point_2 + 1])
        m == MergedLane
    IN  \E i \in 1..(Len(m) - 1) :
          \/ XY(m[i]) = a /\ XY(m[i + 1]) = b
          \/ XY(m[i]) = b /\ XY(m[i + 1]) = a

\* the rows of a lane of the table before the merge, by ascending index
LaneByIndex(lane_id) ==
  LET rws == LaneRows(pre.data, lane_id)
      order == CHOOSE o \in ArgSorts(IndexColumn(pre.data, rws)) : TRUE
  IN  Take(Take(pre.data.rows, rws), order)

DistinctIndex(lane_id) ==
  LET col == IndexColumn(pre.data, LaneRows(pre.data, lane_id))
  IN  \A i, j \in 1..Len(col) : i # j => col[i] # col[j]

\* C9 as claimed: on any table, merging two lanes at the highest-index row
\* of lane 1 as "end" and the lowest-index row of lane 2 as "start" gives
\* all of lane 1 by ascending index, then all of lane 2 by ascending
\* index, every row with lane 1's id and index = frame_idx = 0..N-1.
C9_EndToStartMergeKeepsBothLanes ==
  (/\ MergedTwoLanes
   /\ MergeArgs.point_1_type = "end" /\ MergeArgs.point_2_type = "start"
   /\ DistinctIndex(MergeArgs.lane_id_1) /\ DistinctIndex(MergeArgs.lane_id_2)
   /\ LET l1 == LaneByIndex(MergeArgs.lane_id_1)
          l2 == LaneByIndex(MergeArgs.lane_id_2)
      IN  /\ pre.data.rows[MergeArgs.point_1 + 1] = l1[Len(l1)]
          /\ pre.data.rows[MergeArgs.point_2 + 1] = l2[1])
  => LET both == LaneByIndex(MergeArgs.lane_id_1) \o LaneByIndex(MergeArgs.lane_id_2)
         m == MergedLane
     IN  /\ Len(m) = Len(both)
         /\ \A i \in 1..Len(m) :
              /\ XY(m[i]) = XY(both[i])
              /\ IndexOf(m[i]) = i - 1
              /\ FrameOf(m[i]) = i - 1

\* C10: after a merge of two lanes no row carries lane 2's id; the rows with
\* lane 1's id are the first N rows, with index = frame_idx = 0..N-1 in
\* that order; the rows that were in neither lane follow them, all six
\* fields and their order unchanged; and the table holds nothing else.
C10_MergedSegmentThenUntouchedRows ==
  MergedTwoLanes =>
    LET l1 == MergeArgs.lane_id_1
        l2 == MergeArgs.lane_id_2
        N == Len(MergedLane)
        untouched == SelectSeq(pre.data.rows, LAMBDA r : LaneOf(r) \notin {l1, l2})
    IN  /\ \A i \in 1..Len(data.rows) : LaneOf(data.rows[i]) # l2
        /\ N >= 2
        /\ \A i \in 1..N :
             /\ LaneOf(data.rows[i]) = l1
             /\ IndexOf(data.rows[i]) = i - 1
             /\ FrameOf(data.rows[i]) = i - 1
        /\ Len(data.rows) = N + Len(untouched)
        /\ \A k \in 1..Len(untouched) : data.rows[N + k] = untouched[k]

\* two lanes merged next to two rows of the third
C10_Witness ==
  /\ Idle
  /\ MergedTwoLanes
  /\ Len(MergedLane) = 3
  /\ Len(data.rows) = 5

\* C11: merge_lanes called with a lane that has no row in the table (the
\* empty table included) returns without merging: such a call never does a
\* merge, and after it table, history and redo_stack are what they were,
\* nothing appended to history.
C11_MergeOfMissingLaneIsRefused ==
  /\ last.op = "merge_lanes" =>
       /\ LaneRows(pre.data, last.args[1]) # <<>>
       /\ LaneRows(pre.data, last.args[2]) # <<>>
  /\ (/\ failed.op = "merge_lanes"
      /\ \/ LaneRows(failed.before.data, failed.args[1]) = <<>>
         \/ LaneRows(failed.before.data, failed.args[2]) = <<>>)
     => /\ failed.outcome = "noop"
        /\ data = failed.before.data
        /\ history = failed.before.history
        /\ redo_stack = failed.before.redo_stack

\* merge_lanes has returned on a table where lane 1 has rows and lane 2
\* has none, with an undone edit waiting in redo_stack
C11_Witness ==
  /\ failed.op = "merge_lanes"
  /\ LaneRows(data, failed.args[1]) # <<>>
  /\ LaneRows(data, failed.args[2]) = <<>>
  /\ redo_stack # <<>>

\* whether a position list names only rows of the table
ValidPositions(d, indices) ==
  \A k \in 1..Len(indices) : 0 <= indices[k] /\ indices[k] < LenA(d)

\* C12: delete_points on a table of N rows with a non-empty list of valid
\* positions that names k distinct rows is carried out, and gives a table
\* of N - k rows with index = frame_idx = 0..N-k-1 in table order; with
\* k = N it gives the table of no rows.
C12_DeleteRenumbersTheRest ==
  /\ last.op = "delete_points" =>
       LET N == LenA(pre.data)
           k == Cardinality(Range(last.args[1]))
       IN  /\ Len(data.rows) = N - k
           /\ \A i \in 1..Len(data.rows) :
                IndexOf(data.rows[i]) = i - 1 /\ FrameOf(data.rows[i]) = i - 1
           /\ k = N => data = Array2D(<<>>, 6)
  /\ failed.op = "delete_points" =>
       failed.args[1] = <<>> \/ ~ValidPositions(failed.before.data, failed.args[1])

\* the first row and another row deleted from a table of five rows
C12_Witness ==
  /\ Idle
  /\ last.op = "delete_points"
  /\ Len(last.args[1]) = 2 /\ last.args[1][1] = 0 /\ last.args[1][2] # 0
  /\ LenA(pre.data) = 5
  /\ LenA(data) = 3

\* C13: delete_points with a list that holds a position outside
\* [0, row count), or with the empty list, deletes nothing: such a call is
\* never carried out, not even for the valid positions of the list, and
\* after it table, history and redo_stack are what they were.
C13_DeleteOutOfBoundsOrEmptyIsNoOp ==
  /\ last.op = "delete_points" =>
       last.args[1] # <<>> /\ ValidPositions(pre.data, last.args[1])
  /\ (/\ failed.op = "delete_points"
      /\ failed.args[1] = <<>> \/ ~ValidPositions(failed.before.data, failed.args[1]))
     => /\ failed.outcome = "noop"
        /\ data = failed.before.data
        /\ history = failed.before.history
        /\ redo_stack = failed.before.redo_stack

\* delete_points has returned on a list with the first row and a position
\* past the last row, an undone edit waiting in redo_stack
C13_Witness ==
  /\ failed.op = "delete_points"
  /\ LenA(data) >= 2
  /\ failed.args[1] = <<0, LenA(data)>>
  /\ redo_stack # <<>>

\* what renumbering leaves of a row: x, y, yaw and lane_id
Kept(r) == <<r[1], r[2], r[3], LaneOf(r)>>

KeptOf(rows) == [i \in 1..Len(rows) |-> Kept(rows[i])]

\* whether the index values of a lane of the table before the call are
\* 0..n-1, each once
IndexIsZeroToN(lane_id) ==
  LET col == IndexColumn(pre.data, LaneRows(pre.data, lane_id))
  IN  DistinctIndex(lane_id) /\ Range(col) = 0..(Len(col) - 1)

\* C14 as claimed: on any lane whose index values are 0..n-1,
\* remove_points_below at the position of the lane's row with index j
\* removes exactly the lane's rows with index >= j and keeps the lane's
\* rows with index < j (and every row of the other lanes).
C14_RemoveBelowCutsAtIndex ==
  (/\ last.op = "remove_points_below"
   /\ LaneOf(pre.data.rows[last.args[1] + 1]) = last.args[2]
   /\ IndexIsZeroToN(last.args[2]))
  => LET j == IndexOf(pre.data.rows[last.args[1] + 1])
     IN  KeptOf(data.rows) =
           KeptOf(SelectSeq(pre.data.rows,
                            LAMBDA r : ~(LaneOf(r) = last.args[2] /\ IndexOf(r) >= j)))

\* whether no two rows of a lane of table d have the same index
DistinctIndexIn(d, lane_id) ==
  LET col == IndexColumn(d, LaneRows(d, lane_id))
  IN  \A i, j \in 1..Len(col) : i # j => col[i] # col[j]

C16_RemoveAboveRefusesWrongRow ==
  /\ last.op = "remove_points_above" =>
       /\ ValidPositions(pre.data, <<last.args[1]>>)
       /\ LaneOf(pre.data.rows[last.args[1] + 1]) = last.args[2]
  /\ (/\ failed.op = "remove_points_above"
      /\ \/ ~ValidPositions(failed.before.data, <<failed.args[1]>>)
         \/ LaneOf(failed.before.data.rows[failed.args[1] + 1]) # failed.args[2])
     => /\ failed.outcome = "noop"
        /\ data = failed.before.data
        /\ history = failed.before.history
        /\ redo_stack = failed.before.redo_stack

\* remove_points_above has returned on a row of another lane than the one
\* named, a lane that has rows, with an undone edit waiting in redo_stack
C16_Witness ==
  /\ failed.op = "remove_points_above"
  /\ ValidPositions(data, <<failed.args[1]>>)
  /\ LaneOf(data.rows[failed.args[1] + 1]) # failed.args[2]
  /\ LaneRows(data, failed.args[2]) # <<>>
  /\ redo_stack # <<>>

\* whether the list of positions names the i-th row of a table of N rows,
\* a negative position counting back from the end as numpy reads it
Names(indices, N, i) ==
  \E k \in 1..Len(indices) : indices[k] = i - 1 \/ indices[k] = i - 1 - N

\* C17: a change_ids(positions, new_id) that is carried out sets lane_id to
\* new_id on the rows the positions name and changes nothing else: every
\* row keeps its x, y, yaw, frame_idx and index, every row not named keeps
\* its lane_id, and the rows are as many as before and in the same order.
C17_ChangeIdsTouchesOnlyLaneOfNamedRows ==
  last.op = "change_ids" =>
    LET N == LenA(pre.data)
    IN  /\ data.shape = pre.data.shape
        /\ Len(data.rows) = N
        /\ \A i \in 1..N :
             /\ SubSeq(data.rows[i], 1, 5) = SubSeq(pre.data.rows[i], 1, 5)
             /\ LaneOf(data.rows[i]) =
                  IF Names(last.args[1], N, i) THEN last.args[2]
                  ELSE LaneOf(pre.data.rows[i])

\* two rows of a table of five have moved to another lane, next to a row of
\* their old lane that was not named
C17_Witness ==
  /\ Idle
  /\ last.op = "change_ids"
  /\ Len(last.args[1]) = 2
  /\ LenA(data) = 5
  /\ ValidPositions(pre.data, last.args[1])
  /\ \A k \in 1..2 : LaneOf(pre.data.rows[last.args[1][k] + 1]) # last.args[2]
  /\ \E i \in 1..5 :
       /\ ~Names(last.args[1], 5, i)
       /\ LaneOf(data.rows[i]) = LaneOf(pre.data.rows[last.args[1][1] + 1])

\* C18 as claimed: change_ids with a list that holds a position outside
\* [0, row count), a negative one included, is refused before anything
\* changes: such a call is never carried out, and after it no lane_id has
\* changed, history has nothing appended and redo_stack is what it was.
C18_ChangeIdsRefusesPositionsOutOfBounds ==
  /\ last.op = "change_ids" => ValidPositions(pre.data, last.args[1])
  /\ (failed.op = "change_ids" /\ ~ValidPositions(failed.before.data, failed.args[1]))
     => /\ data = failed.before.data
        /\ history = failed.before.history
        /\ redo_stack = failed.before.redo_stack

\* C19: an add_point(x, y, lane_id) that is carried out on a table of N
\* rows gives a table of N + 1 rows: the first N are the old rows as they
\* were, the last has the given x, y and lane_id, yaw 0 and
\* index = frame_idx = N.
C19_AddPointAppendsOneRow ==
  last.op = "add_point" =>
    LET N == LenA(pre.data)
    IN  /\ data.shape = <<N + 1, 6>>
        /\ Len(data.rows) = N + 1
        /\ SubSeq(data.rows, 1, N) = pre.data.rows
        /\ data.rows[N + 1] =
             <<last.args[1], last.args[2], YawZero, N, N, last.args[3]>>

\* a row added below a table of five rows
C19_Witness ==
  /\ Idle
  /\ last.op = "add_point"
  /\ LenA(pre.data) = 5
  /\ LenA(data) = 6

\* C20 as claimed: add_point is carried out from every state of the engine,
\* the engine constructed with an empty table included, where it gives a
\* table of one row with index = frame_idx = 0 and one more snapshot in
\* history.
C20_AddPointAlwaysSucceeds ==
  /\ failed.op # "add_point"
  /\ (last.op = "add_point" /\ LenA(pre.data) = 0)
     => /\ LenA(data) = 1
        /\ IndexOf(data.rows[1]) = 0 /\ FrameOf(data.rows[1]) = 0
        /\ Len(history) = Len(pre.history) + 1

\* the lane ids that rows of table d carry
LanesIn(d) == {LaneOf(d.rows[i]) : i \in 1..Len(d.rows)}

\* I3 on table d: in every lane the index values are 0..count-1, each once
I3(d) ==
  \A lane_id \in LanesIn(d) :
    LET col == IndexColumn(d, LaneRows(d, lane_id))
    IN  /\ DistinctIndexIn(d, lane_id)
        /\ Range(col) = 0..(Len(col) - 1)

\* C21 as claimed: from an initial table whose lanes are each numbered
\* 0..count-1, every table the engine reaches has its lanes numbered
\* 0..count-1 without gap or duplicate.
C21_LanesAreNumberedFromZero == I3(history[1]) => I3(data)

\* C22: after clear_data the table is empty, history is exactly one empty
\* snapshot and redo_stack is empty; an undo that follows is refused and
\* never carried out.
C22_ClearLeavesOneEmptyBaseline ==
  /\ last.op = "clear_data" =>
       /\ Size(data) = 0 /\ data = EmptyArray
       /\ history = <<EmptyArray>>
       /\ redo_stack = <<>>
       /\ failed.op = "undo" => failed.outcome = "noop"
  /\ last.op = "undo" => last.after # "clear"

\* undo has been refused right after a clear_data that discarded a history
\* of two snapshots
C22_Witness ==
  /\ last.op = "clear_data"
  /\ Len(pre.history) = 2
  /\ Size(pre.data) > 0
  /\ failed.op = "undo"

C24_BackupsAreAnIntervalApart ==
  /\ \A j \in 1..Len(backups) :
       /\ backups[j].at >= backup_interval
       /\ j > 1 => backups[j].at - backups[j - 1].at >= backup_interval
  /\ backups # <<>> => last_backup >= backups[Len(backups)].at
  /\ last_backup <= now

\* an edit has been carried out less than backup_interval after the one
\* backup written, and has changed the table since
C24_Witness ==
  /\ Idle
  /\ Len(backups) = 1
  /\ last.op \in Mutators
  /\ last.at - backups[1].at > 0
  /\ last.at - backups[1].at < backup_interval
  /\ Size(data) > 0
  /\ backups[1].rows # FirstThree(data)

\* C25 as claimed: a call that does its work backup_interval or more after
\* last_backup, an undo, a redo or a call that leaves the table empty
\* included, writes exactly one backup: when a backup was due at the call
\* and the call has moved last_backup to its own time, there is one backup
\* of that time.
C25_EveryDueCallWritesOneBackup ==
  (last.due /\ last_backup = last.at)
  => Cardinality({j \in 1..Len(backups) : backups[j].at = last.at}) = 1

\* a backup was due at the last call and last_backup has stayed behind:
\* the write has failed
BackupFailed == last.due /\ last_backup # last.at

\* C26: when the backup of an edit, an undo or a redo fails, the call has
\* still done all of its work and returned as done: an edit has appended
\* its table to history and emptied redo_stack, an undo has moved the last
\* snapshot to redo_stack and made the one before it the table, a redo has
\* moved the last of redo_stack back to the table and history; and
\* last_backup is not moved: after a call with a backup due that leaves
\* rows in the table, last_backup is the time of the call only if a backup
\* of that time was written.
C26_FailedBackupLeavesCallCommitted ==
  /\ (BackupFailed /\ last.op \in Mutators)
     => /\ history = Append(pre.history, data)
        /\ redo_stack = <<>>
  /\ (BackupFailed /\ last.op = "undo")
     => /\ history = SubSeq(pre.history, 1, Len(pre.history) - 1)
        /\ data = history[Len(history)]
        /\ Len(redo_stack) = last.lens[2] + 1
        /\ redo_stack[Len(redo_stack)] = pre.history[Len(pre.history)]
  /\ (BackupFailed /\ last.op = "redo")
     => /\ history = Append(pre.history, data)
        /\ Len(redo_stack) = last.lens[2] - 1
  /\ (last.op \in Mutators \cup {"undo", "redo"} /\ Size(data) > 0
      /\ last.due /\ last_backup = last.at)
     => \E j \in 1..Len(backups) : backups[j].at = last.at

\* the backup of an undo has failed, after the backup of the edit it undoes
\* had failed too
C26_Witness ==
  /\ Idle
  /\ BackupFailed
  /\ last.op = "undo"
  /\ last.after = "edit"
  /\ backups = <<>>
  /\ Size(data) > 0

C28_MergedYawPointsToNextRow ==
  last.op = "merge_lanes" =>
    LET m == MergedLane
        N == Len(m)
        others(d) == SelectSeq(d.rows, LAMBDA r : LaneOf(r) \notin {last.args[1], last.args[2]})
    IN  /\ N >= 2
        /\ \A i \in 1..(N - 1) :
             m[i][3] = ArcTan2(m[i + 1][2] - m[i][2], m[i + 1][1] - m[i][1])
        /\ m[N][3] = m[N - 1][3]
        /\ Len(others(data)) = Len(others(pre.data))
        /\ \A k \in 1..Len(others(data)) : others(data)[k][3] = others(pre.data)[k][3]

\* a merged lane of four rows that ends on a heading other than 0, next to
\* a row of a third lane
C28_Witness ==
  /\ Idle
  /\ MergedTwoLanes
  /\ Len(MergedLane) = 4
  /\ MergedLane[4][3] # YawZero
  /\ MergedLane[1][3] # MergedLane[4][3]
  /\ Len(data.rows) = 5

\* C29: after a merge_lanes that is carried out, file_names has as many
\* entries as the largest lane_id of the new table plus one; an entry at a
\* position below the old length is the old name of that position, an
\* entry at or past the old length is the placeholder "Lane_<position>".
C29_NamesCoverLanesOfMergedTable ==
  last.op = "merge_lanes" =>
    /\ \E i \in 1..Len(data.rows) : LaneOf(data.rows[i]) = Len(file_names) - 1
    /\ \A i \in 1..Len(data.rows) : LaneOf(data.rows[i]) <= Len(file_names) - 1
    /\ \A i \in 1..Len(file_names) :
         file_names[i] = IF i <= Len(pre.file_names) THEN pre.file_names[i]
                         ELSE <<"Lane_", i - 1>>

\* a merge has added a placeholder name for lane 1, which had none
C29_Witness ==
  /\ Idle
  /\ last.op = "merge_lanes"
  /\ Len(pre.file_names) = 1
  /\ file_names = <<pre.file_names[1], <<"Lane_", 1>>>>

\* the rows of table d but those of the lane at position p or after it
WithoutLaneFrom(d, p, lane_id) ==
  Take(d.rows, SelectSeq(Iota(Len(d.rows)),
                         LAMBDA i : ~(LaneOf(d.rows[i]) = lane_id /\ i - 1 >= p)))

LaneCount(d, lane_id) == Len(LaneRows(d, lane_id))

\* C31: after a merge that was carried out, the part kept of lane 1 (the
\* rows of the merged lane before those of lane 2) holds the row that
\* point_1 names: as its last row when point_1_type is "end", as its first
\* row when it is "start".
C31_KeptPartOfLane1HoldsPoint1 ==
  last.op = "merge_lanes" =>
    LET lane_id_1 == last.args[1]
        lane_id_2 == last.args[2]
        named == pre.data.rows[last.args[3] + 1]
        kept == LaneCount(data, lane_id_1) - LaneCount(pre.data, lane_id_2)
    IN  IF last.args[5] = "end"
        THEN kept >= 1 /\ XY(data.rows[kept]) = XY(named)
        ELSE kept >= 1 /\ XY(data.rows[1]) = XY(named)

\* whether the call named a type that is neither "start" nor "end"
OtherType(args) == args[5] \notin {"start", "end"} \/ args[6] \notin {"start", "end"}

\* C32: merge_lanes with a point_1_type or point_2_type that is neither
\* "start" nor "end" is never carried out, under no orientation, and leaves
\* table, names, history and redo_stack as they were.
C32_MergeWithOtherTypeIsRefused ==
  /\ last.op = "merge_lanes" => ~OtherType(last.args)
  /\ (failed.op = "merge_lanes" /\ OtherType(failed.args)) =>
       /\ data = failed.before.data
       /\ file_names = failed.before.file_names
       /\ history = failed.before.history
       /\ redo_stack = failed.before.redo_stack

\* merge_lanes has refused a call whose two points are rows of their lanes
\* and whose type is neither "start" nor "end"
C32_Witness ==
  /\ failed.op = "merge_lanes"
  /\ OtherType(failed.args)
  /\ failed.outcome = "caught"
  /\ ValidPositions(data, <<failed.args[3], failed.args[4]>>)
  /\ LaneOf(data.rows[failed.args[3] + 1]) = failed.args[1]
  /\ LaneOf(data.rows[failed.args[4] + 1]) = failed.args[2]

\* the snapshots stored before the last call are stored as they were
StoredSnapshotsKept ==
  /\ Len(history) >= Len(pre.history)
  /\ SubSeq(history, 1, Len(pre.history)) = pre.history

\* C33: the table is never the array of a snapshot stored in history or in
\* redo_stack, so the write of change_ids into the table and the
\* renumbering of delete_points, after whatever edits, undos and redos,
\* leave every snapshot stored before them as it was.
C33_TableSharesNoStoredSnapshot ==
  /\ shared = {}
  /\ last.op \in {"change_ids", "delete_points"} => StoredSnapshotsKept

\* change_ids has written a new lane into the table, and the snapshot
\* stored before it still has the old one
C33_Witness ==
  /\ Idle
  /\ last.op = "change_ids"
  /\ data # pre.data
  /\ history[Len(pre.history)] = pre.data
  /\ history[Len(history)] = data

\* row p of table d is a row of the lane and the one with the lowest index
\* of that lane
LowestOfLane(d, p, lane_id) ==
  /\ ValidPositions(d, <<p>>)
  /\ LaneOf(d.rows[p + 1]) = lane_id
  /\ \A i \in 1..Len(d.rows) :
       (i # p + 1 /\ LaneOf(d.rows[i]) = lane_id)
         => IndexOf(d.rows[i]) > IndexOf(d.rows[p + 1])

C35_LastSnapshotIsTheTable ==
  /\ history # <<>>
  /\ history[Len(history)] = data

\* a call has been refused after an undo that brought back a table with
\* rows, and the last snapshot is that table
C35_Witness ==
  /\ ~Idle
  /\ last.op = "undo"
  /\ Size(data) > 0
  /\ data # pre.data
  /\ history[Len(history)] = data

\* C36: after construction and n edits that were carried out, with no
\* clear, undo or redo among them, n undos in a row succeed and the next
\* one fails; after the n-th the table is the table at construction and
\* redo_stack holds n snapshots; n redos in a row then succeed and bring
\* back the table after the n-th edit.  An undo or a redo that succeeds
\* keeps len(history) + len(redo_stack).
C36_UndoAllThenRedoAll ==
  LET run == last.run
  IN  /\ run.phase = "undos" => run.k <= run.n
      /\ (failed.op = "undo" /\ run.phase \in {"edits", "undos"}) => run.k = run.n
      /\ (run.phase = "undos" /\ run.k = run.n) =>
           data = run.first /\ Len(redo_stack) = run.n
      /\ (failed.op = "redo" /\ run.phase = "undos") => run.k # run.n
      /\ (failed.op = "redo" /\ run.phase = "redos") => run.k = run.n
      /\ (run.phase = "redos" /\ run.k = run.n) => data = run.final
      /\ last.op \in {"undo", "redo"} =>
           Len(history) + Len(redo_stack) = last.lens[1] + last.lens[2]

\* two edits, two undos and two redos have brought back the table after
\* the second edit
C36_Witness ==
  /\ Idle
  /\ last.run.phase = "redos"
  /\ last.run.n = 2
  /\ last.run.k = 2
  /\ data = last.run.final
  /\ data # last.run.first

\* C37: a merge that was carried out, whatever lanes it was given (the same
\* lane twice too), leaves a table with no more rows than the table it
\* started from.
C37_MergeAddsNoRows ==
  last.op = "merge_lanes" => LenA(data) <= LenA(pre.data)

\* C38: undo() right after a merge that was carried out brings back, with
\* the table, the list of names as it was before the merge.
C38_UndoOfMergeRestoresNames ==
  (last.op = "undo" /\ last.of = "merge_lanes") =>
    /\ data = last.prev
    /\ file_names = last.names

\* the rows of table d that the list of positions does not name, as their
\* 1-based places in table order
NotNamed(d, indices) ==
  SelectSeq(Iota(Len(d.rows)), LAMBDA i : \A k \in 1..Len(indices) : indices[k] # i - 1)

\* whether the rows of the lane have increasing index in table order
IncreasingIn(d, lane_id) ==
  \A i, j \in 1..Len(d.rows) :
    (i < j /\ LaneOf(d.rows[i]) = lane_id /\ LaneOf(d.rows[j]) = lane_id)
      => IndexOf(d.rows[i]) < IndexOf(d.rows[j])

\* C39: a delete_points that is carried out keeps every row it was not
\* told to delete, in the same order in the table and with the same x, y,
\* yaw and lane_id (index and frame_idx alone may change); and a lane whose
\* rows had increasing index in table order before has its remaining rows
\* in the same order by index after.
C39_DeleteKeepsTheOtherRows ==
  last.op = "delete_points" =>
    LET rest == NotNamed(pre.data, last.args[1])
    IN  /\ Len(data.rows) = Len(rest)
        /\ \A j \in 1..Len(rest) : Kept(data.rows[j]) = Kept(pre.data.rows[rest[j]])
        /\ \A lane_id \in Lanes :
             IncreasingIn(pre.data, lane_id) =>
               \A i, j \in 1..Len(rest) :
                 (LaneOf(data.rows[i]) = lane_id /\ LaneOf(data.rows[j]) = lane_id)
                   => (IndexOf(data.rows[i]) < IndexOf(data.rows[j])
                       <=> IndexOf(pre.data.rows[rest[i]]) < IndexOf(pre.data.rows[rest[j]]))

\* delete_points has left two rows of one lane behind a row it deleted,
\* with new index values
C39_Witness ==
  /\ Idle
  /\ last.op = "delete_points"
  /\ LenA(data) < LenA(pre.data)
  /\ \E i, j \in 1..Len(data.rows) :
       /\ i < j
       /\ LaneOf(data.rows[i]) = LaneOf(data.rows[j])
       /\ IncreasingIn(pre.data, LaneOf(data.rows[i]))
       /\ \A m \in 1..Len(pre.data.rows) : pre.data.rows[m] # data.rows[i]
====
